---- MODULE Spec2Model ----
(***************************************************************************)
(* Model of package perceptualhash (insomnius/tools):                      *)
(*   FromPath      - open, decode, preprocess, debug export, hash, format  *)
(*   generateHash  - thresholding of the 8x8 low-frequency block           *)
(*   CompareHashes - distance between two hash strings                     *)
(*                                                                         *)
(* Representation:                                                         *)
(*   - a Go string is a sequence of one-character strings;                 *)
(*   - a uint64 is a function 0..63 -> {0,1} (bit i at index i), since the *)
(*     model checker's integers are 32 bits wide;                          *)
(*   - a nil error is the string "nil";                                    *)
(*   - an image is a record [size, lum]: its side length and the 64        *)
(*     numbers that stand for its picture content.  The DCT itself (a sum  *)
(*     of cosines over float64) is not computed: the 8x8 low-frequency     *)
(*     block of an image is read from lum, with integer coefficients;      *)
(*   - a file is a record: whether it exists, the format its first bytes   *)
(*     announce, whether its body decodes, the image it encodes, the       *)
(*     number of bytes of that encoding and the number of bytes after it.  *)
(***************************************************************************)
EXTENDS Integers, Sequences, FiniteSets, TLC

VARIABLES
    fs,             \* the file system: path -> file
    registered,     \* image package: formats with a registered decoder
    defaultConfig,  \* the package-level defaultConfig
    pc,             \* per invocation of FromPath: its position
    args,           \* per invocation: [filePath, configs]
    config,         \* per invocation: local config
    format,         \* per invocation: local format
    decodedImage,   \* per invocation: local decodedImage
    preprocessedImage, \* per invocation: local preprocessedImage
    hash,           \* per invocation: local hash (uint64)
    ret,            \* per invocation: the returned (string, error)
    cmpIn,          \* CompareHashes: the arguments <<hash1, hash2>>
    cmpOut,         \* CompareHashes: the returned (int, error)
    cmpPc,          \* CompareHashes: "call" or "done"
    ghIn,           \* generateHash: the argument image
    ghOut,          \* generateHash: the returned uint64
    ghPc            \* generateHash: "call" or "done"

vars == <<fs, registered, defaultConfig, pc, args, config, format,
          decodedImage, preprocessedImage, hash, ret,
          cmpIn, cmpOut, cmpPc, ghIn, ghOut, ghPc>>

fromPathVars == <<fs, registered, defaultConfig, pc, args, config, format,
                  decodedImage, preprocessedImage, hash, ret>>
cmpVars == <<cmpIn, cmpOut, cmpPc>>
ghVars == <<ghIn, ghOut, ghPc>>

----------------------------------------------------------------------------
(* Bounds of the model *)

\* longest free-form string handed to CompareHashes
MaxLen == 2
\* coefficients of the probe blocks range over -MaxCoef..MaxCoef
MaxCoef == 2

----------------------------------------------------------------------------
(* uint64 values and their hexadecimal rendering *)

Bit == 0..63
Zero64 == [i \in Bit |-> 0]
\* (h >> pos) & 1
BitAt(h, pos) == h[pos]

HexDigits == <<"0", "1", "2", "3", "4", "5", "6", "7",
               "8", "9", "a", "b", "c", "d", "e", "f">>

\* the value of hexadecimal digit k of h, digit 0 the least significant
Nibble(h, k) == h[4 * k] + 2 * h[4 * k + 1] + 4 * h[4 * k + 2] + 8 * h[4 * k + 3]

\* verb %x: the digits of h from its most significant non-zero digit down,
\* "0" for zero
FormatHex(h) ==
    LET nz == {k \in 0..15 : Nibble(h, k) # 0}
        top == IF nz = {} THEN 0 ELSE CHOOSE k \in nz : \A m \in nz : m <= k
    IN [j \in 1..(top + 1) |-> HexDigits[Nibble(h, top + 1 - j) + 1]]

\* flag 0 with a width: pad on the left with "0" up to width characters
PadZero(s, width) ==
    IF Len(s) >= width THEN s
    ELSE [j \in 1..(width - Len(s)) |-> "0"] \o s

\* faulty variant: the verb without its width, fmt.Sprintf("%x", hash)
Sprintf_x(h) == FormatHex(h)

\* fmt.Sprintf("%016x", hash)
Sprintf_016x(h) == PadZero(FormatHex(h), 16)

----------------------------------------------------------------------------
(* CompareHashes *)

ErrLength == "hashes must be of the same length"

RECURSIVE CompareLoop(_, _, _, _)
\* for i := 0; i < len(hash1); i++ { if hash1[i] != hash2[i] { distance++ } }
CompareLoop(hash1, hash2, i, distance) ==
    IF i > Len(hash1) THEN distance
    ELSE CompareLoop(hash1, hash2, i + 1,
                     IF hash1[i] # hash2[i] THEN distance + 1 ELSE distance)

RECURSIVE CompareLoop_eq(_, _, _, _)
\* faulty variant of the loop: counts the positions that agree
CompareLoop_eq(hash1, hash2, i, distance) ==
    IF i > Len(hash1) THEN distance
    ELSE CompareLoop_eq(hash1, hash2, i + 1,
                        IF hash1[i] = hash2[i] THEN distance + 1 ELSE distance)

\* faulty variant: the comparison of the loop inverted
CompareHashes_eq(hash1, hash2) ==
    IF Len(hash1) # Len(hash2)
    THEN [distance |-> 0, err |-> ErrLength]
    ELSE [distance |-> CompareLoop_eq(hash1, hash2, 1, 0), err |-> "nil"]

\* faulty variant: only a longer first argument is refused
CompareHashes_gt(hash1, hash2) ==
    IF Len(hash1) > Len(hash2)
    THEN [distance |-> 0, err |-> ErrLength]
    ELSE [distance |-> CompareLoop(hash1, hash2, 1, 0), err |-> "nil"]

CompareHashes(hash1, hash2) ==
    IF Len(hash1) # Len(hash2)
    THEN [distance |-> 0, err |-> ErrLength]
    ELSE [distance |-> CompareLoop(hash1, hash2, 1, 0), err |-> "nil"]

\* characters of the free-form strings: two hexadecimal digits and one that is not
Chars == {"0", "f", "g"}

RECURSIVE StringsOfLen(_)
StringsOfLen(n) ==
    IF n = 0 THEN {<< >>}
    ELSE {Append(s, c) : s \in StringsOfLen(n - 1), c \in Chars}

ShortStrings == UNION {StringsOfLen(n) : n \in 0..MaxLen}

\* bits that the probe hashes set or clear
ProbeBits == {0, 1, 2, 3, 63}
ProbeHashes == {[i \in Bit |-> IF i \in S THEN 1 ELSE 0] : S \in SUBSET ProbeBits}
HashStrings == {Sprintf_016x(h) : h \in ProbeHashes}

CompareInputs == ShortStrings \cup HashStrings

NoCompare == [distance |-> 0, err |-> "none"]

CallCompareHashes ==
    /\ cmpPc = "call"
    /\ cmpOut' = CompareHashes(cmpIn[1], cmpIn[2])
    /\ cmpPc' = "done"
    /\ UNCHANGED <<cmpIn, fromPathVars, ghVars>>

----------------------------------------------------------------------------
(* Images, preprocessImage, generateHash, visualizeHash *)

NoImage == [size |-> 0, lum |-> [i \in Bit |-> 0]]

\* image.NewGray(image.Rect(0, 0, 32, 32)) filled by CatmullRom.Scale: the
\* picture content is kept, the side length becomes 32
preprocessImage(inputImage) == [size |-> 32, lum |-> inputImage.lum]

\* dctMatrix[y][x] for y, x in 0..7, appended in row-major order: index 8*y + x
dctValuesOf(img) == img.lum

RECURSIVE SumRange(_, _, _)
\* for i := lo; i <= hi; i++ { sum += dctValues[i] }: the coefficients are
\* integers here, so the additions are grouped by halves to keep the
\* evaluation shallow
SumRange(dctValues, lo, hi) ==
    IF lo > hi THEN 0
    ELSE IF lo = hi THEN dctValues[lo]
    ELSE LET mid == (lo + hi) \div 2
         IN SumRange(dctValues, lo, mid) + SumRange(dctValues, mid + 1, hi)

\* average := sum / 63, kept as the fraction sum/63
Average(sum) == [num |-> sum, den |-> 63]

\* value > average
Greater(value, average) == value * average.den > average.num

\* var hash uint64
\* for i, value := range dctValues { if i > 0 && value > average { hash |= 1 << i } }
\* iteration i is the only one that writes bit i
HashLoop(dctValues, average) ==
    [i \in Bit |-> IF i > 0 /\ Greater(dctValues[i], average) THEN 1 ELSE 0]

\* faulty variant: the sum starts at index 0, so the DC coefficient enters the mean
generateHash_dc(img) ==
    LET dctValues == dctValuesOf(img)
        average == Average(SumRange(dctValues, 0, 63))
    IN HashLoop(dctValues, average)

generateHash(img) ==
    LET dctValues == dctValuesOf(img)
        average == Average(SumRange(dctValues, 1, 63))
    IN HashLoop(dctValues, average)

\* the 8x8 image of visualizeHash: pixel (j, i) is 255 when bit i*8+j is 1
visualizeImage(h) ==
    [size |-> 8, lum |-> [bitPosition \in Bit |-> IF BitAt(h, bitPosition) = 1 THEN 255 ELSE 0]]

Coefs == (0 - MaxCoef)..MaxCoef
SecondIndex == {0, 1, 63}
Fill == {0 - 1, 0, 1}

\* a 32x32 gray image whose block is f everywhere, plus x at p and y at q
ProbeImage(p, x, q, y, f) ==
    [size |-> 32,
     lum |-> [i \in Bit |-> f + (IF i = p THEN x ELSE 0) + (IF i = q THEN y ELSE 0)]]

ProbeImages ==
    {ProbeImage(p, x, q, y, f) : p \in Bit, x \in Coefs, q \in SecondIndex, y \in Coefs, f \in Fill}

CallGenerateHash ==
    /\ ghPc = "call"
    /\ ghOut' = generateHash(ghIn)
    /\ ghPc' = "done"
    /\ UNCHANGED <<ghIn, fromPathVars, cmpVars>>

----------------------------------------------------------------------------
(* Files, image.Decode, saveImage *)

Procs == {1, 2}

\* a 64x64 picture whose hash has leading zero digits: bits 1, 2 and 9
Picture1 == [size |-> 64, lum |-> [i \in Bit |-> IF i \in {1, 2, 9} THEN 5 ELSE 0]]
\* a 64x64 picture whose hash sets every odd bit, bit 63 included
Picture2 == [size |-> 64, lum |-> [i \in Bit |-> IF i % 2 = 1 THEN 3 ELSE 0 - 3]]

NoFile == [exists |-> FALSE, magic |-> "", valid |-> FALSE, img |-> NoImage,
           enc |-> 0, stale |-> 0]
EmptyFile == [NoFile EXCEPT !.exists = TRUE]

\* the bytes an encoder writes for img: more for a larger image
EncodedLen(img) == img.size

ImageFile(fmt, img) ==
    [exists |-> TRUE, magic |-> fmt, valid |-> TRUE, img |-> img,
     enc |-> EncodedLen(img), stale |-> 0]

\* paths that cannot be opened for writing (the empty path is the zero value
\* of PreprocessedImagePath and VisualizedImagePath)
Unwritable == {""}
\* paths that open and then fail every write
Faulty == {"/dev/full"}

Paths == {"a.png", "b.jpg", "c.gif", "d.bmp", "bad.png", "junk", "old",
          "none", "out", "out2", "out3", "", "/dev/full"}

InitFS ==
    [p \in Paths |->
        CASE p = "a.png" -> ImageFile("png", Picture1)
          [] p = "b.jpg" -> ImageFile("jpeg", Picture2)
          [] p = "c.gif" -> ImageFile("gif", Picture1)
          [] p = "d.bmp" -> ImageFile("bmp", Picture2)
          [] p = "bad.png" -> [ImageFile("png", NoImage) EXCEPT !.valid = FALSE, !.enc = 3]
          [] p = "junk" -> [EmptyFile EXCEPT !.enc = 5]
          [] p = "old" -> ImageFile("png", Picture2)
          [] p = "/dev/full" -> EmptyFile
          [] OTHER -> NoFile]

\* the decoders the package's imports register: image/png and image/jpeg
ImportedFormats == {"png", "jpeg"}
\* decoders the program that links the package may register besides
HostFormats == {"gif"}

ErrNotExist == "open: no such file or directory"
ErrFormat == "image: unknown format"
ErrDecode == "invalid image data"
ErrUnsupportedFormat == "image format is not supported"
ErrOpenFile == "open for writing failed"
ErrWrite == "write failed"

\* os.Open(filePath)
OsOpen(f, filePath) == IF f[filePath].exists THEN "nil" ELSE ErrNotExist

\* image.Decode: the format is the registered one whose magic the first bytes
\* match; bytes after the encoded image are not read
ImageDecode(file, formats) ==
    IF file.magic \notin formats
    THEN [img |-> NoImage, format |-> "", err |-> ErrFormat]
    ELSE IF ~file.valid
    THEN [img |-> NoImage, format |-> "", err |-> ErrDecode]
    ELSE [img |-> file.img, format |-> file.magic, err |-> "nil"]

\* format != "png" && format != "jpeg" && format != "jpg"
Unsupported(fmt) == fmt # "png" /\ fmt # "jpeg" /\ fmt # "jpg"

\* os.OpenFile(location, os.O_CREATE|os.O_RDWR, 0600): creates a missing file,
\* leaves an existing one as it is
OsOpenFile(f, location) ==
    IF location \in Unwritable THEN [fs |-> f, err |-> ErrOpenFile]
    ELSE [fs |-> IF f[location].exists THEN f ELSE [f EXCEPT ![location] = EmptyFile],
          err |-> "nil"]

\* png.Encode / jpeg.Encode on the opened file: the bytes are written from
\* offset 0 over what the file holds; bytes past the encoding stay
Encode(f, location, fmt, img) ==
    IF location \in Faulty THEN [fs |-> f, err |-> ErrWrite]
    ELSE LET old == f[location]
             n == EncodedLen(img)
             m == old.enc + old.stale
         IN [fs |-> [f EXCEPT ![location] =
                        [exists |-> TRUE, magic |-> fmt, valid |-> TRUE, img |-> img,
                         enc |-> n, stale |-> IF m > n THEN m - n ELSE 0]],
             err |-> "nil"]

\* config := defaultConfig; if len(configs) > 0 { config = configs[0] }
LoadConfig(configs, default) == IF Len(configs) > 0 THEN configs[1] ELSE default

\* faulty variant: a Debug flag that is always taken as set
DebugOn_always(cfg) == TRUE

\* if config.Debug
DebugOn(cfg) == cfg.Debug

MkConfig(d, pre, vis) ==
    [Debug |-> d, PreprocessedImagePath |-> pre, VisualizedImagePath |-> vis]

DefaultConfigValue == MkConfig(FALSE, "", "")

Return(h, e) == [hash |-> h, err |-> e]
NoReturn == Return(<< >>, "none")

----------------------------------------------------------------------------
(* FromPath, one action per step between two accesses to shared state *)

locals == <<args, config, format, decodedImage, preprocessedImage, hash>>
others == <<cmpVars, ghVars>>

Goto(p, label) == pc' = [pc EXCEPT ![p] = label]

\* return "", err
Fail(p, e) ==
    /\ ret' = [ret EXCEPT ![p] = Return(<< >>, e)]
    /\ Goto(p, "done")

\* return fmt.Sprintf("%016x", hash), nil
Succeed(p, h) ==
    /\ ret' = [ret EXCEPT ![p] = Return(Sprintf_016x(h), "nil")]
    /\ Goto(p, "done")

\* faulty variant: the configuration is stored in the package-level default
Call_shared(p, filePath, configs) ==
    /\ pc[p] = "idle"
    /\ args' = [args EXCEPT ![p] = [filePath |-> filePath, configs |-> configs]]
    /\ defaultConfig' = LoadConfig(configs, defaultConfig)
    /\ config' = [config EXCEPT ![p] = LoadConfig(configs, defaultConfig)]
    /\ Goto(p, "open")
    /\ UNCHANGED <<fs, registered, format, decodedImage,
                   preprocessedImage, hash, ret, others>>

\* the call and "load the configurations"
Call(p, filePath, configs) ==
    /\ pc[p] = "idle"
    /\ args' = [args EXCEPT ![p] = [filePath |-> filePath, configs |-> configs]]
    /\ config' = [config EXCEPT ![p] = LoadConfig(configs, defaultConfig)]
    /\ Goto(p, "open")
    /\ UNCHANGED <<fs, registered, defaultConfig, format, decodedImage,
                   preprocessedImage, hash, ret, others>>

\* 1. Load the image
Open(p) ==
    /\ pc[p] = "open"
    /\ LET e == OsOpen(fs, args[p].filePath)
       IN IF e # "nil" THEN Fail(p, e)
          ELSE Goto(p, "decode") /\ UNCHANGED ret
    /\ UNCHANGED <<fs, registered, defaultConfig, locals, others>>

\* 2. Decode the image, the format check, 3. Preprocess the image
Decode(p) ==
    /\ pc[p] = "decode"
    /\ LET d == ImageDecode(fs[args[p].filePath], registered)
       IN /\ decodedImage' = [decodedImage EXCEPT ![p] = d.img]
          /\ format' = [format EXCEPT ![p] = d.format]
          /\ IF d.err # "nil"
             THEN Fail(p, d.err) /\ UNCHANGED preprocessedImage
             ELSE IF Unsupported(d.format)
             THEN Fail(p, ErrUnsupportedFormat) /\ UNCHANGED preprocessedImage
             ELSE /\ preprocessedImage' =
                        [preprocessedImage EXCEPT ![p] = preprocessImage(d.img)]
                  /\ Goto(p, IF DebugOn(config[p]) THEN "savePre" ELSE "hash")
                  /\ UNCHANGED ret
    /\ UNCHANGED <<fs, registered, defaultConfig, args, config, hash, others>>

\* saveImage(preprocessedImage, ...): os.OpenFile
SavePreOpen(p) ==
    /\ pc[p] = "savePre"
    /\ LET o == OsOpenFile(fs, config[p].PreprocessedImagePath)
       IN /\ fs' = o.fs
          /\ IF o.err # "nil" THEN Fail(p, o.err)
             ELSE Goto(p, "writePre") /\ UNCHANGED ret
    /\ UNCHANGED <<registered, defaultConfig, locals, others>>

\* saveImage(preprocessedImage, ...): the encoder's writes
SavePreWrite(p) ==
    /\ pc[p] = "writePre"
    /\ LET w == Encode(fs, config[p].PreprocessedImagePath, format[p],
                       preprocessedImage[p])
       IN /\ fs' = w.fs
          /\ IF w.err # "nil" THEN Fail(p, w.err)
             ELSE Goto(p, "hash") /\ UNCHANGED ret
    /\ UNCHANGED <<registered, defaultConfig, locals, others>>

\* hash := generateHash(preprocessedImage), and the return when Debug is off
GenerateHash(p) ==
    /\ pc[p] = "hash"
    /\ hash' = [hash EXCEPT ![p] = generateHash(preprocessedImage[p])]
    /\ IF DebugOn(config[p])
       THEN Goto(p, "saveVis") /\ UNCHANGED ret
       ELSE Succeed(p, hash'[p])
    /\ UNCHANGED <<fs, registered, defaultConfig, args, config, format,
                   decodedImage, preprocessedImage, others>>

\* visualizeHash: os.OpenFile of saveImage
SaveVisOpen(p) ==
    /\ pc[p] = "saveVis"
    /\ LET o == OsOpenFile(fs, config[p].VisualizedImagePath)
       IN /\ fs' = o.fs
          /\ IF o.err # "nil" THEN Fail(p, o.err)
             ELSE Goto(p, "writeVis") /\ UNCHANGED ret
    /\ UNCHANGED <<registered, defaultConfig, locals, others>>

\* faulty variant: the error of the visualization's write is dropped
SaveVisWrite_ignore(p) ==
    /\ pc[p] = "writeVis"
    /\ LET w == Encode(fs, config[p].VisualizedImagePath, format[p],
                       visualizeImage(hash[p]))
       IN /\ fs' = w.fs
          /\ Succeed(p, hash[p])
    /\ UNCHANGED <<registered, defaultConfig, locals, others>>

\* visualizeHash: the encoder's writes of saveImage, and the final return
SaveVisWrite(p) ==
    /\ pc[p] = "writeVis"
    /\ LET w == Encode(fs, config[p].VisualizedImagePath, format[p],
                       visualizeImage(hash[p]))
       IN /\ fs' = w.fs
          /\ IF w.err # "nil" THEN Fail(p, w.err)
             ELSE Succeed(p, hash[p])
    /\ UNCHANGED <<registered, defaultConfig, locals, others>>

----------------------------------------------------------------------------
(* Specifications *)

InitFromPath ==
    /\ fs = InitFS
    /\ defaultConfig = DefaultConfigValue
    /\ pc = [p \in Procs |-> "idle"]
    /\ args = [p \in Procs |-> [filePath |-> "", configs |-> << >>]]
    /\ config = [p \in Procs |-> DefaultConfigValue]
    /\ format = [p \in Procs |-> ""]
    /\ decodedImage = [p \in Procs |-> NoImage]
    /\ preprocessedImage = [p \in Procs |-> NoImage]
    /\ hash = [p \in Procs |-> Zero64]
    /\ ret = [p \in Procs |-> NoReturn]

InitCmpOff == cmpIn = << << >>, << >> >> /\ cmpOut = NoCompare /\ cmpPc = "off"
InitGhOff == ghIn = NoImage /\ ghOut = Zero64 /\ ghPc = "off"

\* one invocation of FromPath, any source and any configuration
SeqProcs == {1}
Sources == {"a.png", "b.jpg", "c.gif", "d.bmp", "bad.png", "junk", "old", "none", ""}
DebugPaths == {"a.png", "old", "none", "out", "", "/dev/full"}
Configs ==
    {<< >>} \cup {<<MkConfig(d, pre, vis)>> : d \in BOOLEAN, pre \in DebugPaths, vis \in DebugPaths}

Init ==
    /\ InitFromPath
    /\ registered \in {ImportedFormats \cup H : H \in SUBSET HostFormats}
    /\ InitCmpOff
    /\ InitGhOff

Next ==
    \E p \in SeqProcs :
        \/ \E f \in Sources, c \in Configs : Call(p, f, c)
        \/ Open(p)
        \/ Decode(p)
        \/ SavePreOpen(p)
        \/ SavePreWrite(p)
        \/ GenerateHash(p)
        \/ SaveVisOpen(p)
        \/ SaveVisWrite(p)

Spec == Init /\ [][Next]_vars

\* two concurrent invocations of FromPath
ConcSources == {"a.png", "old", "out"}
ConcDebugPaths == {"out", "out2", "out3", "old"}
ConcConfigs ==
    {<< >>, <<MkConfig(FALSE, "out", "out2")>>}
        \cup {<<MkConfig(TRUE, pre, vis)>> : pre \in ConcDebugPaths, vis \in ConcDebugPaths}

InitConc ==
    /\ InitFromPath
    /\ registered = ImportedFormats
    /\ InitCmpOff
    /\ InitGhOff

NextConc ==
    \E p \in Procs :
        \/ \E f \in ConcSources, c \in ConcConfigs : Call(p, f, c)
        \/ Open(p)
        \/ Decode(p)
        \/ SavePreOpen(p)
        \/ SavePreWrite(p)
        \/ GenerateHash(p)
        \/ SaveVisOpen(p)
        \/ SaveVisWrite(p)

SpecConc == InitConc /\ [][NextConc]_vars

\* CompareHashes on every pair of inputs
InitCmp ==
    /\ InitFromPath
    /\ registered = ImportedFormats
    /\ InitGhOff
    /\ cmpIn \in CompareInputs \X CompareInputs
    /\ cmpOut = NoCompare
    /\ cmpPc = "call"

NextCmp == CallCompareHashes

SpecCmp == InitCmp /\ [][NextCmp]_vars

\* generateHash on every probe image
InitHash ==
    /\ InitFromPath
    /\ registered = ImportedFormats
    /\ InitCmpOff
    /\ ghIn \in ProbeImages
    /\ ghOut = Zero64
    /\ ghPc = "call"

NextHash == CallGenerateHash

SpecHash == InitHash /\ [][NextHash]_vars

----------------------------------------------------------------------------
(* Properties *)

HexChars == {HexDigits[d] : d \in 1..16}
HexVal(c) == CHOOSE d \in 0..15 : HexDigits[d + 1] = c
IsHash16(s) == Len(s) = 16 /\ \A i \in 1..16 : s[i] \in HexChars
\* the 64-bit value a 16-digit string denotes: character 16 holds bits 0..3
ParseHex16(s) ==
    [i \in Bit |-> LET v == HexVal(s[16 - (i \div 4)])
                   IN CASE i % 4 = 0 -> v % 2
                        [] i % 4 = 1 -> (v \div 2) % 2
                        [] i % 4 = 2 -> (v \div 4) % 2
                        [] OTHER -> (v \div 8) % 2]
BitHamming(a, b) ==
    Cardinality({i \in Bit : ParseHex16(a)[i] # ParseHex16(b)[i]})

\* C1: for two 16-character lowercase hex hashes CompareHashes returns the
\* number of bit positions in which their 64-bit values differ
C1_BitLevelHamming ==
    (cmpPc = "done" /\ IsHash16(cmpIn[1]) /\ IsHash16(cmpIn[2]))
        => (cmpOut.err = "nil" /\ cmpOut.distance = BitHamming(cmpIn[1], cmpIn[2]))

\* C5: CompareHashes returns the length-mismatch error with distance 0 exactly
\* when the lengths differ, and a nil error with a distance >= 0 otherwise
C5_LengthMismatch ==
    cmpPc = "done" =>
        /\ (Len(cmpIn[1]) # Len(cmpIn[2])) <=> (cmpOut.err # "nil")
        /\ cmpOut.err # "nil" => (cmpOut.err = ErrLength /\ cmpOut.distance = 0)
        /\ cmpOut.err = "nil" => cmpOut.distance >= 0

C5_Witness ==
    /\ cmpPc = "done"
    /\ Len(cmpIn[1]) < Len(cmpIn[2])
    /\ cmpOut.err = ErrLength

\* C9: CompareHashes(a, b) and CompareHashes(b, a) return the same distance
\* and the same error
C9_Commutative ==
    cmpPc = "done" => cmpOut = CompareHashes(cmpIn[2], cmpIn[1])

C9_Witness ==
    /\ cmpPc = "done"
    /\ Len(cmpIn[1]) = 16
    /\ Len(cmpIn[2]) = 16
    /\ cmpOut.err = "nil"
    /\ cmpOut.distance > 1

\* C10: CompareHashes(h, h) returns distance 0 and a nil error
C10_Identity ==
    (cmpPc = "done" /\ cmpIn[1] = cmpIn[2])
        => (cmpOut.distance = 0 /\ cmpOut.err = "nil")

C10_Witness ==
    /\ cmpPc = "done"
    /\ cmpIn[1] = cmpIn[2]
    /\ Len(cmpIn[1]) = 16
    /\ cmpIn[1][16] = "f"
    /\ cmpOut.distance = 0

\* C3: bit 0 of generateHash's result is 0, and for i in 1..63 bit i is 1
\* exactly when coefficient i is greater than the mean of coefficients 1..63
C3_ThresholdBits ==
    ghPc = "done" =>
        LET c == dctValuesOf(ghIn)
            total == SumRange(c, 1, 63)
        IN /\ ghOut[0] = 0
           /\ \A i \in 1..63 : ghOut[i] = (IF 63 * c[i] > total THEN 1 ELSE 0)

C3_Witness ==
    /\ ghPc = "done"
    /\ LET c == dctValuesOf(ghIn)
           total == SumRange(c, 1, 63)
       IN /\ 63 * c[0] > total
          /\ ghOut[0] = 0
          /\ \E i \in 1..63 : ghOut[i] = 1
          /\ \E j \in 1..63 : ghOut[j] = 0 /\ c[j] < 0

\* the file a path named before any invocation ran
SourceFile(p) == InitFS[args[p].filePath]

\* C2: a readable file in a well-formed encoding other than PNG and JPEG makes
\* FromPath return the empty string and ErrUnsupportedFormat
C2_UnsupportedFormatError ==
    \A p \in Procs :
        (/\ pc[p] = "done"
         /\ SourceFile(p).exists
         /\ SourceFile(p).valid
         /\ SourceFile(p).magic \notin {"png", "jpeg"})
            => ret[p] = Return(<< >>, ErrUnsupportedFormat)

\* C4: a successful FromPath returns the 16 lowercase hexadecimal digits of
\* the 64-bit hash, zero-padded; a failing one returns the empty string and a
\* non-nil error
C4_HashStringFormat ==
    \A p \in Procs :
        pc[p] = "done" =>
            IF ret[p].err = "nil"
            THEN IsHash16(ret[p].hash) /\ ParseHex16(ret[p].hash) = hash[p]
            ELSE ret[p].hash = << >> /\ ret[p].err # "none"

C4_Witness ==
    \E p \in Procs :
        /\ pc[p] = "done"
        /\ ret[p].err = "nil"
        /\ Len(ret[p].hash) = 16
        /\ ret[p].hash[1] = "0"
        /\ ret[p].hash[16] = "6"

\* the error saveImage meets at a location, "nil" when it meets none
SaveErr(location) ==
    IF location \in Unwritable THEN ErrOpenFile
    ELSE IF location \in Faulty THEN ErrWrite
    ELSE "nil"

\* C6: with Debug set, when writing the preprocessed image or the
\* visualization fails, FromPath returns that error and the empty string
C6_DebugWriteFailureIsFatal ==
    \A p \in Procs :
        LET pre == config[p].PreprocessedImagePath
            vis == config[p].VisualizedImagePath
        IN (/\ pc[p] = "done"
            /\ config[p].Debug
            /\ ~Unsupported(format[p])
            /\ (SaveErr(pre) # "nil" \/ SaveErr(vis) # "nil"))
               => ret[p] = Return(<< >>, IF SaveErr(pre) # "nil" THEN SaveErr(pre)
                                         ELSE SaveErr(vis))

C6_Witness ==
    \E p \in Procs :
        /\ pc[p] = "done"
        /\ config[p].Debug
        /\ config[p].PreprocessedImagePath = "out"
        /\ config[p].VisualizedImagePath = "/dev/full"
        /\ fs["out"].valid
        /\ hash[p] # Zero64
        /\ ret[p] = Return(<< >>, ErrWrite)

\* the invocation was given no configuration, or one whose Debug is false
NoDebugGiven(p) == Len(args[p].configs) = 0 \/ ~args[p].configs[1].Debug

\* C7: while every invocation made so far is without Debug, no file has been
\* created or modified, whatever the two paths of the configuration are
C7_NoDebugNoWrites ==
    (\A p \in Procs : pc[p] # "idle" => NoDebugGiven(p)) => fs = InitFS

C7_Witness ==
    \E p \in Procs :
        /\ pc[p] = "done"
        /\ Len(args[p].configs) = 1
        /\ ~args[p].configs[1].Debug
        /\ args[p].configs[1].PreprocessedImagePath = "out"
        /\ args[p].configs[1].VisualizedImagePath = "old"
        /\ ret[p].err = "nil"
        /\ fs = InitFS

\* saveImage run to its end on file system f
SaveImage(f, img, fmt, location) ==
    LET o == OsOpenFile(f, location)
    IN IF o.err # "nil" THEN o ELSE Encode(o.fs, location, fmt, img)

\* what FromPath(filePath, configs...) returns when it runs alone on the
\* initial file system
Solo(filePath, configs) ==
    LET cfg == LoadConfig(configs, DefaultConfigValue)
        e == OsOpen(InitFS, filePath)
        d == ImageDecode(InitFS[filePath], registered)
        pre == preprocessImage(d.img)
        s1 == IF cfg.Debug THEN SaveImage(InitFS, pre, d.format, cfg.PreprocessedImagePath)
              ELSE [fs |-> InitFS, err |-> "nil"]
        h == generateHash(pre)
        s2 == IF cfg.Debug
              THEN SaveImage(s1.fs, visualizeImage(h), d.format, cfg.VisualizedImagePath)
              ELSE [fs |-> s1.fs, err |-> "nil"]
    IN IF e # "nil" THEN Return(<< >>, e)
       ELSE IF d.err # "nil" THEN Return(<< >>, d.err)
       ELSE IF Unsupported(d.format) THEN Return(<< >>, ErrUnsupportedFormat)
       ELSE IF s1.err # "nil" THEN Return(<< >>, s1.err)
       ELSE IF s2.err # "nil" THEN Return(<< >>, s2.err)
       ELSE Return(Sprintf_016x(h), "nil")

\* the debug output paths an invocation was given
GivenDebugPaths(p) ==
    IF pc[p] # "idle" /\ Len(args[p].configs) > 0 /\ args[p].configs[1].Debug
    THEN <<args[p].configs[1].PreprocessedImagePath,
           args[p].configs[1].VisualizedImagePath>>
    ELSE << >>

AllDebugPaths == GivenDebugPaths(1) \o GivenDebugPaths(2)

DebugPathsDistinct ==
    \A i, j \in 1..Len(AllDebugPaths) : i # j => AllDebugPaths[i] # AllDebugPaths[j]

\* no debug output path of one invocation is the source path of another
NoDebugPathIsASource ==
    \A p, q \in Procs :
        (p # q /\ pc[q] # "idle")
            => \A i \in 1..Len(GivenDebugPaths(p)) :
                   GivenDebugPaths(p)[i] # args[q].filePath

ResultsAsAlone ==
    /\ defaultConfig = DefaultConfigValue
    /\ \A p \in Procs : pc[p] = "done" => ret[p] = Solo(args[p].filePath, args[p].configs)
    /\ \A p, q \in Procs :
           (/\ pc[p] = "done" /\ pc[q] = "done"
            /\ args[p].filePath = args[q].filePath
            /\ ret[p].err = "nil" /\ ret[q].err = "nil")
               => ret[p].hash = ret[q].hash

\* C8 as stated: with pairwise distinct debug output paths, every finished
\* invocation has returned what it returns alone, and defaultConfig is unwritten
C8_ResultsAsAlone_Original == DebugPathsDistinct => ResultsAsAlone

\* C8 amended: the same, when moreover no debug output path of one invocation
\* is the source path of another
C8_ResultsAsAlone ==
    (DebugPathsDistinct /\ NoDebugPathIsASource) => ResultsAsAlone

C8_Witness ==
    /\ pc[1] = "done"
    /\ pc[2] = "done"
    /\ Len(AllDebugPaths) = 4
    /\ DebugPathsDistinct
    /\ NoDebugPathIsASource
    /\ args[1].filePath = args[2].filePath
    /\ ret[1].err = "nil"
    /\ ret[2].err = "nil"
    /\ ret[1].hash = ret[2].hash
    /\ fs["old"].stale > 0

\* a file that holds the encoding of img in format fmt and no byte besides
HoldsExactly(file, fmt, img) == file = ImageFile(fmt, img)

\* C11: after a successful FromPath with Debug set (and two different debug
\* paths), the file at PreprocessedImagePath holds exactly the encoded
\* preprocessed image and the file at VisualizedImagePath exactly the encoded
\* visualization, whatever the files held before
C11_DebugFilesHoldOnlyTheImage ==
    \A p \in Procs :
        LET pre == config[p].PreprocessedImagePath
            vis == config[p].VisualizedImagePath
        IN (/\ pc[p] = "done"
            /\ config[p].Debug
            /\ ret[p].err = "nil"
            /\ pre # vis)
               => /\ HoldsExactly(fs[pre], format[p], preprocessedImage[p])
                  /\ HoldsExactly(fs[vis], format[p], visualizeImage(hash[p]))
====
